---- MODULE Spec2Model ----
(***************************************************************************)
(* Run-up of a Jeffcott rotor in short journal bearings.                   *)
(*                                                                         *)
(*   src/test_short_bearing.py              fun_short_bearing and the six  *)
(*                                          reference evaluations          *)
(*   src/run_Jeffcott_journal_bearing_short.py   rotor_Jeffcott, the system *)
(*                                          matrices and the solve_ivp run *)
(*                                                                         *)
(* Numbers.  The inputs of the force law are decimal fractions; they are   *)
(* carried as exact fractions n/d * 10^e (d > 0, n/d in lowest terms).     *)
(* The exponent e is only ever non-zero for the literal 1e16 and what is   *)
(* computed from it.  A quantity that is the square root of a fraction     *)
(* (cos_kappa_1, sin_kappa_1) is carried as its sign and its square.       *)
(***************************************************************************)
EXTENDS Integers, Sequences, FiniteSets, TLC

\* ------------------------------------------------------------------------
\* bounds of the model

\* largest numerator (in 1/Den) of |epsS| and |phiS| that is drawn
MaxS == 6
\* largest numerator (in 1/Den) of eps that is drawn; eps > 1 is included
MaxEpsN == 12
\* the approach to G = 1 is sampled at G = 1 -/+ 1/k, k = 1 .. MaxK
MaxK == 6

\* the journal and rotor coordinates a derivative call is made at: 0 and
\* single entries of size 1 .. MaxQ, either sign
MaxQ == 1
\* the bearing and unbalance forces the outside functions return: multiples
\* 1 .. MaxF of fixed directions
MaxF == 1
\* the calls of rotor_Jeffcott that are followed
MaxEvals == 2

\* the decimal resolution of the inputs: 0.7, 0.5 are 7/Den, 5/Den
Den == 10

\* ------------------------------------------------------------------------
\* exact arithmetic standing for the floating point operators

Abs(x) == IF x < 0 THEN -x ELSE x

Sgn(x) == IF x > 0 THEN 1 ELSE IF x < 0 THEN -1 ELSE 0

RECURSIVE Gcd(_, _)
Gcd(a, b) == IF b = 0 THEN a ELSE Gcd(b, a % b)

\* the number n/d * 10^e in lowest terms with a positive denominator
Num(n, d, e) ==
    LET g == Gcd(Abs(n), Abs(d))
        s == IF d < 0 THEN -1 ELSE 1
    IN  IF n = 0 THEN [n |-> 0, d |-> 1, e |-> 0]
        ELSE [n |-> (s * n) \div g, d |-> (s * d) \div g, e |-> e]

Frac(n, d) == Num(n, d, 0)

Int2(n) == Num(n, 1, 0)

fsign(x) == Sgn(x.n)

fneg(x) == [x EXCEPT !.n = -x.n]

fmul(x, y) == Num(x.n * y.n, x.d * y.d, x.e + y.e)

\* x / y for y # 0
fdiv(x, y) == Num(x.n * y.d, x.d * y.n, x.e - y.e)

\* the number of decimal digits a double carries: a term more than 10^Digits
\* times smaller than the other is absorbed by the addition
Digits == 16

RECURSIVE Pow10(_)
Pow10(k) == IF k = 0 THEN 1 ELSE 10 * Pow10(k - 1)

\* x + y; with different exponents the smaller term is below the last digit
\* of the larger one and the sum is the larger one (1 + 1e32 == 1e32)
fadd(x, y) ==
    IF x.n = 0 THEN y
    ELSE IF y.n = 0 THEN x
    ELSE IF x.e = y.e THEN Num(x.n * y.d + y.n * x.d, x.d * y.d, x.e)
    ELSE IF x.e - y.e >= Digits THEN x
    ELSE IF y.e - x.e >= Digits THEN y
    ELSE IF x.e > y.e
         THEN Num(x.n * Pow10(x.e - y.e) * y.d + y.n * x.d, x.d * y.d, y.e)
         ELSE Num(x.n * y.d + y.n * Pow10(y.e - x.e) * x.d, x.d * y.d, x.e)

fsub(x, y) == fadd(x, fneg(y))

fsq(x) == fmul(x, x)

\* x < y, x and y of the same exponent
flt(x, y) == x.n * y.d < y.n * x.d

One == Int2(1)

Two == Int2(2)

\* a real number given by its sign and its square: sgn * sqrt(sq)
Root(sgn, sq) == [sgn |-> IF sq.n = 0 THEN 0 ELSE sgn, sq |-> sq]

\* ------------------------------------------------------------------------
\* fun_short_bearing (src/test_short_bearing.py:10-43)

\* the literal 1e16 of lines 25 and 27
Lit1e16 == [n |-> 1, d |-> 1, e |-> 16]

\* what a float that was not computed holds
NoVal == [kind |-> "none"]

\* line 15: fr = 2*eps**2/(1-eps**2)**2.  The divisor is zero at eps = +/-1:
\* Python floats raise ZeroDivisionError, NumPy float64 scalars give inf.
Case1_fr(eps, dtype) ==
    LET den == fsq(fsub(One, fsq(eps)))
    IN  IF den.n = 0
        THEN IF dtype = "float" THEN [kind |-> "ZeroDivisionError"]
                                ELSE [kind |-> "inf", sgn |-> 1]
        ELSE [kind |-> "finite", val |-> fdiv(fmul(Two, fsq(eps)), den)]

\* line 16 with the minus sign lost: fphi = 0.5*pi*eps/(1-eps**2)**1.5
Case1_fphi_Plus(eps, dtype) ==
    LET base == fsub(One, fsq(eps))
        half == Frac(1, 2)
    IN  IF fsign(base) < 0
        THEN IF dtype = "float" THEN [kind |-> "complex"] ELSE [kind |-> "nan"]
        ELSE IF fsign(base) = 0
        THEN IF dtype = "float" THEN [kind |-> "ZeroDivisionError"]
                                ELSE [kind |-> "inf", sgn |-> fsign(eps)]
        ELSE [kind |-> "finite",
              pi   |-> Root(fsign(eps),
                            fdiv(fsq(fmul(half, eps)),
                                 fmul(base, fmul(base, base))))]

\* line 16: fphi = -0.5*pi*eps/(1-eps**2)**1.5, held as pi * sgn * sqrt(sq)
\* with sq = (0.5*eps)^2/(1-eps^2)^3.  A negative base to the power 1.5 is a
\* complex number for Python floats and nan for NumPy float64 scalars.
Case1_fphi(eps, dtype) ==
    LET base == fsub(One, fsq(eps))
        half == Frac(1, 2)
    IN  IF fsign(base) < 0
        THEN IF dtype = "float" THEN [kind |-> "complex"] ELSE [kind |-> "nan"]
        ELSE IF fsign(base) = 0
        THEN IF dtype = "float" THEN [kind |-> "ZeroDivisionError"]
                                ELSE [kind |-> "inf", sgn |-> -fsign(eps)]
        ELSE [kind |-> "finite",
              pi   |-> Root(-fsign(eps),
                            fdiv(fsq(fmul(half, eps)),
                                 fmul(base, fmul(base, base))))]

\* lines 19 and 29: tan_kappa_1 = E/(eps*(1-G)); the divisor is zero at
\* eps = 0 (G # 1 on both lines)
TanQuotient(eps, E, G, dtype) ==
    LET den == fmul(eps, fsub(One, G))
    IN  IF den.n # 0 THEN [kind |-> "finite", val |-> fdiv(E, den)]
        ELSE IF dtype = "float" THEN [kind |-> "ZeroDivisionError"]
        ELSE IF E.n = 0 THEN [kind |-> "nan"]
        ELSE [kind |-> "inf", sgn |-> fsign(E)]

\* lines 18-29 with case 2b2 left out of the negation of lines 30-31
TanKappa_Unnegated(eps, E, G, dtype) ==
    IF flt(One, G)
    THEN [case |-> "2a", negated |-> FALSE, tan |-> TanQuotient(eps, E, G, dtype)]
    ELSE IF G = One
         THEN IF fsign(E) > 0
              THEN [case |-> "2b1a", negated |-> TRUE,
                    tan |-> [kind |-> "finite", val |-> fneg(Lit1e16)]]
              ELSE [case |-> "2b1b", negated |-> TRUE,
                    tan |-> [kind |-> "finite", val |-> Lit1e16]]
         ELSE [case |-> "2b2", negated |-> FALSE,
               tan |-> TanQuotient(eps, E, G, dtype)]

\* lines 18-29: the sub-case of the squeeze case and tan_kappa_1
TanKappa(eps, E, G, dtype) ==
    IF flt(One, G)
    THEN [case |-> "2a", negated |-> FALSE, tan |-> TanQuotient(eps, E, G, dtype)]
    ELSE IF G = One
         THEN IF fsign(E) > 0
              THEN [case |-> "2b1a", negated |-> TRUE,
                    tan |-> [kind |-> "finite", val |-> fneg(Lit1e16)]]
              ELSE [case |-> "2b1b", negated |-> TRUE,
                    tan |-> [kind |-> "finite", val |-> Lit1e16]]
         ELSE [case |-> "2b2", negated |-> TRUE,
               tan |-> TanQuotient(eps, E, G, dtype)]

\* lines 20 and 30: +/- 1/sqrt(1+tan^2)
CosKappa(tan, negated) ==
    Root(IF negated THEN -1 ELSE 1, fdiv(One, fadd(One, fsq(tan))))

\* lines 21 and 31: +/- tan/sqrt(1+tan^2)
SinKappa(tan, negated) ==
    Root(IF negated THEN -fsign(tan) ELSE fsign(tan),
         fdiv(fsq(tan), fadd(One, fsq(tan))))

\* lines 32-35: piS in units of pi.  1+cos is zero only at cos = -1, where
\* sin is zero too and 0/0 = nan compares False.
PiS(cos, sin) ==
    IF cos.sgn = -1 /\ cos.sq = One THEN 0
    ELSE IF sin.sgn < 0 THEN 1 ELSE 0

\* lines 37-42: whether fr and fphi come out finite.  np.sqrt(1-eps**2) is
\* nan for |eps| > 1 and the divisors (1-eps**2) are zero at |eps| = 1; the
\* other divisors, 1-eps^2*cos^2 >= 1-eps^2, are positive inside (-1,1), and
\* at sin = 0 the arctan takes +/-inf.
SqueezeKind(eps) ==
    IF fsign(fsub(One, fsq(eps))) > 0 THEN "finite" ELSE "nonfinite"

\* lines 17-42
Case2(eps, E, G, B2D, dtype) ==
    LET k == TanKappa(eps, E, G, dtype)
    IN  IF k.tan.kind = "ZeroDivisionError"
        THEN [case |-> k.case, raised |-> "ZeroDivisionError", E |-> E, G |-> G,
              tan |-> k.tan, cos |-> NoVal, sin |-> NoVal, piS |-> 0,
              fr |-> NoVal, fphi |-> NoVal]
        ELSE IF k.tan.kind # "finite"
        THEN [case |-> k.case, raised |-> "none", E |-> E, G |-> G,
              tan |-> k.tan, cos |-> NoVal, sin |-> NoVal, piS |-> 0,
              fr |-> [kind |-> "nonfinite"], fphi |-> [kind |-> "nonfinite"]]
        ELSE LET cos == CosKappa(k.tan.val, k.negated)
                 sin == SinKappa(k.tan.val, k.negated)
             IN  [case |-> k.case, raised |-> "none", E |-> E, G |-> G,
                  tan |-> k.tan, cos |-> cos, sin |-> sin,
                  piS |-> PiS(cos, sin),
                  fr |-> [kind |-> SqueezeKind(eps)],
                  fphi |-> [kind |-> SqueezeKind(eps)]]

\* lines 14-16
Case1(eps, E, G, dtype) ==
    LET fr   == Case1_fr(eps, dtype)
        fphi == Case1_fphi(eps, dtype)
    IN  [case |-> "1",
         raised |-> IF fr.kind = "ZeroDivisionError" THEN "ZeroDivisionError"
                    ELSE "none",
         E |-> E, G |-> G, tan |-> NoVal, cos |-> NoVal, sin |-> NoVal,
         piS |-> 0,
         fr |-> IF fr.kind = "ZeroDivisionError" THEN NoVal ELSE fr,
         fphi |-> IF fr.kind = "ZeroDivisionError" THEN NoVal ELSE fphi]

\* the dispatch with line 14 reading "if E==0 or G==0"
fun_short_bearing_Or(eps, epsS, phiS, B2D, dtype) ==
    LET E == fmul(Two, epsS)
        G == fmul(Two, phiS)
    IN  IF E.n = 0 \/ G.n = 0
        THEN Case1(eps, E, G, dtype)
        ELSE Case2(eps, E, G, B2D, dtype)

\* lines 12-14 and 17: the dispatch.  dtype is the number type of the
\* arguments ("float": Python floats, as in lines 46-51; "float64": NumPy
\* scalars), which decides what a division by zero does.
fun_short_bearing(eps, epsS, phiS, B2D, dtype) ==
    LET E == fmul(Two, epsS)
        G == fmul(Two, phiS)
    IN  IF E.n = 0 /\ G.n = 0
        THEN Case1(eps, E, G, dtype)
        ELSE Case2(eps, E, G, B2D, dtype)

\* ------------------------------------------------------------------------
\* state

VARIABLES
    line,       \* test_short_bearing.py: the statement to run next, 46 .. 52
    printed,    \* what lines 46-51 have printed, in order
    stage,      \* of a call after the module is loaded
    args,       \* the arguments of the last call of fun_short_bearing
    out,        \* what that call returned
    prev,       \* what the call before it returned
    A,          \* run_Jeffcott...py line 58: the state space matrix
    Minv,       \* line 58: the inverse of the mass matrix
    gvec,       \* line 59: gravity in state space
    geom,       \* lines 30-33: BB, DB, CB, eta
    phase,      \* of the run: "integrating", "returned", "elapsed", "plotted"
    status,     \* res.status of solve_ivp: "running", 0, -1
    tcur,       \* the time the solver has reached
    nfev,       \* the number of calls of rotor_Jeffcott so far
    call,       \* the arguments and intermediate values of the last call
    dq          \* what the last call of rotor_Jeffcott returned

forceVars == <<line, printed, stage, args, out, prev>>

runVars == <<A, Minv, gvec, geom, phase, status, tcur, nfev, call, dq>>

vars == <<line, printed, stage, args, out, prev,
          A, Minv, gvec, geom, phase, status, tcur, nfev, call, dq>>

\* ------------------------------------------------------------------------
\* test_short_bearing.py as a program: lines 46-51, then calls by whoever
\* imported the module

NoArgs == [eps |-> Int2(0), epsS |-> Int2(0), phiS |-> Int2(0),
           B2D |-> Int2(0), dtype |-> "none"]

NoOut == [case |-> "none"]

\* lines 46-51: the arguments of the six reference evaluations
RefCalls ==
    <<[eps |-> Frac(7, 10), epsS |-> Int2(0), phiS |-> Int2(0),
       B2D |-> Frac(5, 10), dtype |-> "float"],
      [eps |-> Frac(7, 10), epsS |-> Int2(0), phiS |-> Int2(1),
       B2D |-> Frac(5, 10), dtype |-> "float"],
      [eps |-> Frac(7, 10), epsS |-> Int2(1), phiS |-> Int2(1),
       B2D |-> Frac(5, 10), dtype |-> "float"],
      [eps |-> Frac(7, 10), epsS |-> Int2(1), phiS |-> Frac(5, 10),
       B2D |-> Frac(5, 10), dtype |-> "float"],
      [eps |-> Frac(7, 10), epsS |-> Int2(0), phiS |-> Frac(5, 10),
       B2D |-> Frac(5, 10), dtype |-> "float"],
      [eps |-> Frac(7, 10), epsS |-> Int2(0), phiS |-> Frac(-5, 10),
       B2D |-> Frac(5, 10), dtype |-> "float"]>>

\* lines 46-51: the case each comment names
RefLabel == <<"1", "2a", "2a", "2b1a", "2b1b", "2b1b">>

\* lines 47 and 51: the comments that say sin_kappa_1=0
RefSinZero == <<FALSE, TRUE, FALSE, FALSE, FALSE, TRUE>>

FirstLine == 46

LastLine == 51

Apply(a) == fun_short_bearing(a.eps, a.epsS, a.phiS, a.B2D, a.dtype)

\* one of the statements print(fun_short_bearing(...)) of lines 46-51
ScriptStep ==
    /\ line <= LastLine
    /\ LET r == Apply(RefCalls[line - FirstLine + 1])
       IN  /\ r.raised = "none"
           /\ printed' = Append(printed, r)
    /\ line' = line + 1
    /\ UNCHANGED <<stage, args, out, prev>>
    /\ UNCHANGED runVars

\* the arguments a caller may pass
EpsNums == {-5} \cup (0 .. MaxEpsN)

SNums == (-MaxS) .. MaxS

Inputs ==
    [eps : {Frac(n, Den) : n \in EpsNums},
     epsS : {Frac(n, Den) : n \in SNums},
     phiS : {Frac(n, Den) : n \in SNums},
     B2D : {Frac(5, Den)},
     dtype : {"float", "float64"}]

\* a call fun_short_bearing(eps, epsS, phiS, B2D) once the module is loaded
Call ==
    /\ line > LastLine
    /\ stage = "loaded"
    /\ \E a \in Inputs :
          /\ args' = a
          /\ out' = Apply(a)
    /\ prev' = NoOut
    /\ stage' = "called"
    /\ UNCHANGED <<line, printed>>
    /\ UNCHANGED runVars

\* the same call with (epsS, phiS) replaced by (-epsS, -phiS)
CallNegated ==
    /\ stage = "called"
    /\ out.raised = "none"
    /\ LET a == [args EXCEPT !.epsS = fneg(args.epsS), !.phiS = fneg(args.phiS)]
       IN  /\ args' = a
           /\ out' = Apply(a)
    /\ prev' = out
    /\ stage' = "negated"
    /\ UNCHANGED <<line, printed>>
    /\ UNCHANGED runVars

\* after a call at G == 1: the same call at G = 1 - 1/k (side = -1) or
\* G = 1 + 1/k (side = 1), that is phiS = (k + side)/(2k)
CallNear ==
    /\ stage = "called"
    /\ out.raised = "none"
    /\ out.G = One
    /\ \E k \in 1 .. MaxK, side \in {-1, 1} :
          LET a == [args EXCEPT !.phiS = Frac(k + side, 2 * k)]
          IN  /\ args' = a
              /\ out' = Apply(a)
    /\ prev' = out
    /\ stage' = "near"
    /\ UNCHANGED <<line, printed>>
    /\ UNCHANGED runVars

\* the caller is done with the result
Return ==
    /\ stage \in {"called", "negated", "near"}
    /\ stage' = "loaded"
    /\ args' = NoArgs
    /\ out' = NoOut
    /\ prev' = NoOut
    /\ UNCHANGED <<line, printed>>
    /\ UNCHANGED runVars

\* ------------------------------------------------------------------------
\* run_Jeffcott_journal_bearing_short.py: parameters (lines 19-37)
\*
\* Units: mass 0.1 kg, time 0.1 s, length 1e-4 m, so that every quantity of
\* the state equation is an integer: m = 0.1 kg = 1, mj = 1e-5 kg = 1/10000,
\* cs = 1e5 N/m = 10000, d = 1e-2*sqrt(cs*m) = 1 Ns/m = 1,
\* g = 9.81 m/s^2 = 981, tmax = 1 s = 10.  Angles are counted in turns, so
\* fmax = 500 Hz = 50 and arot = 2*pi*fmax/tmax = 5.  The bearing geometry
\* is only handed on: BB, DB, CB in micrometres, eta in mPa s.

g == 981

m == Int2(1)

mj == Frac(1, 10000)

cs == 10000

d == 1

BB == 3500

DB == 7000

CB == 15

eta == 10

tmax == 10

fmax == 50

arot == fmax \div tmax

\* ------------------------------------------------------------------------
\* vectors and matrices: functions on 1 .. n

RECURSIVE SumTo(_, _)
SumTo(f, n) == IF n = 0 THEN 0 ELSE f[n] + SumTo(f, n - 1)

\* Mx @ v
MatVec(Mx, v, n) ==
    [i \in 1 .. n |-> SumTo([j \in 1 .. n |-> Mx[i][j] * v[j]], n)]

\* X @ Y
MatMul(X, Y, n) ==
    [i \in 1 .. n |->
        [j \in 1 .. n |-> SumTo([k \in 1 .. n |-> X[i][k] * Y[k][j]], n)]]

\* np.diag
Diag(v, n, zero) ==
    [i \in 1 .. n |-> [j \in 1 .. n |-> IF i = j THEN v[i] ELSE zero]]

\* line 52: M = np.diag([mj,m,mj,m])
M == Diag(<<mj, m, mj, m>>, 4, Int2(0))

\* line 54
O == <<(<<1, -1>>), (<<-1, 1>>)>>

\* lines 55-56: np.vstack(( np.hstack(( c*O, 0 )), np.hstack(( 0, c*O )) ))
Blocks(c) ==
    [i \in 1 .. 4 |->
        [j \in 1 .. 4 |->
            IF i <= 2 /\ j <= 2 THEN c * O[i][j]
            ELSE IF i > 2 /\ j > 2 THEN c * O[i - 2][j - 2]
            ELSE 0]]

\* line 55
D == Blocks(d)

\* line 56
C == Blocks(cs)

\* rd.state_space(M,D,C): Minv is the inverse of the diagonal M, and
\* A = [[0, I], [-Minv C, -Minv D]]
state_space(Mm, Dm, Cm) ==
    LET inv == [i \in 1 .. 4 |->
                   [j \in 1 .. 4 |->
                       IF i = j THEN fdiv(One, Mm[i][i]).n ELSE 0]]
        MC  == MatMul(inv, Cm, 4)
        MD  == MatMul(inv, Dm, 4)
    IN  [A |-> [i \in 1 .. 8 |->
                   [j \in 1 .. 8 |->
                       IF i <= 4 THEN (IF j = i + 4 THEN 1 ELSE 0)
                       ELSE IF j <= 4 THEN -MC[i - 4][j]
                       ELSE -MD[i - 4][j - 4]]],
         Minv |-> inv]

\* line 59 with gravity on the rotor-mass entries xm', ym'
gvec0_MassOnly == [i \in 1 .. 8 |-> IF i \in {6, 8} THEN g * 1 ELSE g * 0]

\* line 59: gvec = g*np.hstack(( np.zeros(6), np.array([1,1]) ))
gvec0 == [i \in 1 .. 8 |-> IF i <= 6 THEN g * 0 ELSE g * 1]

\* lines 30-33
geom0 == [BB |-> BB, DB |-> DB, CB |-> CB, eta |-> eta]

\* ------------------------------------------------------------------------
\* rotor_Jeffcott (lines 42-47).  q is 1-based here: q[1..4] are
\* xj, xm, yj, ym and q[5..8] their velocities (q[0..7] in the source).
\* rdFB and rdFU are what rd.bearing_journal_short and
\* rd.unbalance_const_acc return for the arguments they are given; the
\* unbalance eccentricity eps of line 26 enters through rdFU alone.

\* line 43: q[[0,2,4,6]]
JournalEntries(q) == <<q[1], q[3], q[5], q[7]>>

\* line 45 with the forces grouped instead of interleaved
Fvec_Grouped(FB, FU) == <<FB[1], FB[2], FU[1], FU[2]>>

\* line 45: Fvec = np.array([ FB[0], FU[0], FB[1], FU[1] ])
Fvec(FB, FU) == <<FB[1], FU[1], FB[2], FU[2]>>

\* lines 43-47, reading the globals A, Minv, gvec and the geometry
rotor_Jeffcott(t, q, rdFB, rdFU) ==
    LET FB   == <<2 * rdFB[1], 2 * rdFB[2]>>
        FU   == rdFU
        Fv   == Fvec(FB, FU)
        MF   == MatVec(Minv, Fv, 4)
        fvec == [i \in 1 .. 8 |-> IF i <= 4 THEN 0 ELSE MF[i - 4]]
        Aq   == MatVec(A, q, 8)
    IN  [t |-> t, q |-> q, rdFB |-> rdFB, rdFU |-> rdFU,
         bearingArgs |-> [q |-> JournalEntries(q), BB |-> geom.BB,
                          DB |-> geom.DB, CB |-> geom.CB, eta |-> geom.eta,
                          omega |-> arot * t],
         unbalanceArgs |-> [t |-> t, arot |-> arot],
         Fvec |-> Fv,
         ret |-> [i \in 1 .. 8 |-> Aq[i] + fvec[i] - gvec[i]]]

\* ------------------------------------------------------------------------
\* the run (lines 58-95)

NoCall == [t |-> -1]

NoRet == <<>>

\* the states a derivative call is made at: zero, and one non-zero entry
QSet ==
    {[i \in 1 .. 8 |-> 0]}
    \cup {[i \in 1 .. 8 |-> IF i = k THEN v ELSE 0] :
             k \in 1 .. 8, v \in ((-MaxQ) .. MaxQ) \ {0}}

\* what rd.bearing_journal_short may return (Fx, Fy)
FBSet == {<<0, 0>>} \cup {<<f, 2 * f>> : f \in 1 .. MaxF}
                    \cup {<<-2 * f, f>> : f \in 1 .. MaxF}

\* what rd.unbalance_const_acc may return (Fx, Fy)
FUSet == {<<0, 0>>} \cup {<<3 * f, -5 * f>> : f \in 1 .. MaxF}

\* the times of the span [0, tmax] that are followed
Times == {0, tmax \div 2, tmax}

\* rotor_Jeffcott with line 47 done in place: gvec -= fvec; return A @ q - gvec
Evaluate_InPlace(t, q, rdFB, rdFU) ==
    LET r == rotor_Jeffcott(t, q, rdFB, rdFU)
        MF == MatVec(Minv, r.Fvec, 4)
    IN  /\ call' = r
        /\ dq' = r.ret
        /\ gvec' = [i \in 1 .. 8 |-> IF i <= 4 THEN gvec[i] ELSE gvec[i] - MF[i - 4]]
        /\ UNCHANGED <<A, Minv, geom>>

\* one call rotor_Jeffcott(t, q): it returns a value and assigns no global
Evaluate(t, q, rdFB, rdFU) ==
    LET r == rotor_Jeffcott(t, q, rdFB, rdFU)
    IN  /\ call' = r
        /\ dq' = r.ret
        /\ UNCHANGED <<A, Minv, gvec, geom>>

\* lines 71-73: solve_ivp calls the derivative at a time and a state of its
\* choice (on the trajectory, or off it for the Jacobian)
SolverEval ==
    /\ phase = "integrating"
    /\ nfev < MaxEvals
    /\ call = NoCall
    /\ \E t \in Times, q \in QSet, rdFB \in FBSet, rdFU \in FUSet :
          /\ t >= tcur
          /\ Evaluate(t, q, rdFB, rdFU)
    /\ nfev' = nfev + 1
    /\ UNCHANGED <<phase, status, tcur>>
    /\ UNCHANGED forceVars

\* lines 71-73: solve_ivp has taken the returned vector into its own arrays
SolverTake ==
    /\ phase = "integrating"
    /\ call # NoCall
    /\ call' = NoCall
    /\ dq' = NoRet
    /\ UNCHANGED <<A, Minv, gvec, geom, phase, status, tcur, nfev>>
    /\ UNCHANGED forceVars

\* lines 71-73: solve_ivp accepts a step
SolverStep ==
    /\ phase = "integrating"
    /\ call = NoCall
    /\ tcur < tmax
    /\ \E t \in Times : t > tcur /\ tcur' = t
    /\ UNCHANGED <<A, Minv, gvec, geom, phase, status, nfev, call, dq>>
    /\ UNCHANGED forceVars

\* lines 71-73: solve_ivp has reached tmax and returns res with status 0
SolverFinish ==
    /\ phase = "integrating"
    /\ call = NoCall
    /\ tcur = tmax
    /\ status' = 0
    /\ phase' = "returned"
    /\ UNCHANGED <<A, Minv, gvec, geom, tcur, nfev, call, dq>>
    /\ UNCHANGED forceVars

\* lines 71-73: a step fails (the step size collapses) and solve_ivp returns
\* res with status -1; it raises nothing, and line 71 passes no budget
SolverFail ==
    /\ phase = "integrating"
    /\ call = NoCall
    /\ tcur < tmax
    /\ status' = -1
    /\ phase' = "returned"
    /\ UNCHANGED <<A, Minv, gvec, geom, tcur, nfev, call, dq>>
    /\ UNCHANGED forceVars

\* line 74: print(f"elapsed time: ...")
PrintElapsed ==
    /\ phase = "returned"
    /\ phase' = "elapsed"
    /\ UNCHANGED <<A, Minv, gvec, geom, status, tcur, nfev, call, dq>>
    /\ UNCHANGED forceVars

\* lines 79-95: the plots of res.t and res.y
Plot ==
    /\ phase = "elapsed"
    /\ phase' = "plotted"
    /\ UNCHANGED <<A, Minv, gvec, geom, status, tcur, nfev, call, dq>>
    /\ UNCHANGED forceVars

\* ------------------------------------------------------------------------
\* specifications

ForceInit ==
    /\ line = FirstLine
    /\ printed = <<>>
    /\ stage = "loaded"
    /\ args = NoArgs
    /\ out = NoOut
    /\ prev = NoOut

\* the state when line 71 is reached
RunInit ==
    /\ A = state_space(M, D, C).A
    /\ Minv = state_space(M, D, C).Minv
    /\ gvec = gvec0
    /\ geom = geom0
    /\ phase = "integrating"
    /\ status = "running"
    /\ tcur = 0
    /\ nfev = 0
    /\ call = NoCall
    /\ dq = NoRet

Init == ForceInit /\ RunInit

\* test_short_bearing.py
Next == ScriptStep \/ Call \/ CallNegated \/ CallNear \/ Return

Spec == Init /\ [][Next]_vars

\* run_Jeffcott_journal_bearing_short.py
RunNext ==
    SolverEval \/ SolverTake \/ SolverStep \/ SolverFinish \/ SolverFail \/ PrintElapsed \/ Plot

RunSpec == Init /\ [][RunNext]_vars

\* ------------------------------------------------------------------------
\* properties of fun_short_bearing (specification Spec)

\* a call has been made and its result is in out
Called == stage \in {"called", "negated", "near"}

\* eps is inside (0,1)
EpsInside == fsign(args.eps) > 0 /\ flt(args.eps, One)

\* the input of the call is the pure rotation input
PureInput == args.epsS.n = 0 /\ args.phiS.n = 0

\* C1: for eps in (0,1), a call with epsS == 0 and phiS == 0 takes case 1 and
\* returns fr = 2*eps^2/(1-eps^2)^2 and fphi = -0.5*pi*eps/(1-eps^2)^1.5
\* (sign -1, (fphi/pi)^2 = eps^2/(4*(1-eps^2)^3)); every other call takes the
\* squeeze case.
C1_PureRotation ==
    (Called /\ EpsInside) =>
        \A n \in 1 .. (Den - 1) :
            args.eps = Frac(n, Den) =>
                /\ PureInput =>
                      /\ out.case = "1"
                      /\ out.raised = "none"
                      /\ out.fr = [kind |-> "finite",
                                   val |-> Frac(2 * n * n * Den * Den,
                                                (Den * Den - n * n)
                                                  * (Den * Den - n * n))]
                      /\ out.fphi =
                            [kind |-> "finite",
                             pi |-> [sgn |-> -1,
                                     sq |-> Frac(n * n * Den * Den * Den * Den,
                                                 4 * (Den * Den - n * n)
                                                   * (Den * Den - n * n)
                                                   * (Den * Den - n * n))]]
                /\ ~PureInput => out.case \in {"2a", "2b1a", "2b1b", "2b2"}

\* C1 witness: force(0.5, 0, 0, 0.5) has been evaluated, fr = 8/9
C1_Witness ==
    /\ stage = "called"
    /\ args.eps = Frac(1, 2)
    /\ PureInput
    /\ out.case = "1"
    /\ out.fr.val = Frac(8, 9)

\* twice a number, as lines 12 and 13 form E and G
Twice(x) == fadd(x, x)

\* C2: in the squeeze case the sub-case is chosen by the value of G alone
\* (and of E at G == 1), exactly one applies, and:  G > 1: tan*eps*(1-G) = E,
\* cos > 0, sin has the sign of tan;  G == 1: tan = -1e16 if E > 0 else 1e16,
\* cos and sin negated;  G < 1: tan*eps*(1-G) = E, cos < 0, sin has the sign
\* opposite to tan.  (The quotient exists for eps # 0.)
C2_SqueezeSubCases ==
    (Called /\ ~PureInput) =>
        LET E == Twice(args.epsS)
            G == Twice(args.phiS)
            quotient ==
                /\ out.raised = "none"
                /\ out.tan.kind = "finite"
                /\ fmul(fmul(out.tan.val, args.eps), fsub(One, G)) = E
        IN  /\ flt(One, G) =>
                /\ out.case = "2a"
                /\ args.eps.n # 0 =>
                      /\ quotient
                      /\ out.cos.sgn = 1
                      /\ out.sin.sgn = fsign(out.tan.val)
            /\ G = One =>
                /\ out.case = IF fsign(E) > 0 THEN "2b1a" ELSE "2b1b"
                /\ out.raised = "none"
                /\ out.tan.val = IF fsign(E) > 0 THEN fneg(Lit1e16) ELSE Lit1e16
                /\ out.cos.sgn = -1
                /\ out.sin.sgn = -fsign(out.tan.val)
            /\ flt(G, One) =>
                /\ out.case = "2b2"
                /\ args.eps.n # 0 =>
                      /\ quotient
                      /\ out.cos.sgn = -1
                      /\ out.sin.sgn = -fsign(out.tan.val)

\* C2 witness: each of the three sub-cases has been taken with E # 0
C2_Witness_2a ==
    stage = "called" /\ out.case = "2a" /\ out.raised = "none"
        /\ args.epsS.n > 0 /\ EpsInside /\ out.cos.sgn = 1 /\ out.sin.sgn = -1

\* C3: the (cos, sin) pair used at G == 1 is the limit of the pair as G
\* approaches 1: at G = 1 -/+ 1/k, for epsS # 0 and eps in (0,1), sin has
\* the sign it has at G == 1 (where it is +/-1), on either side.
C3_ContinuousAtOne ==
    (stage = "near" /\ EpsInside /\ args.epsS.n # 0 /\ out.case # "1") =>
        out.sin.sgn = prev.sin.sgn

NonFinite(r) ==
    \/ r.fr.kind \in {"inf", "nan", "complex", "nonfinite"}
    \/ r.fphi.kind \in {"inf", "nan", "complex", "nonfinite"}

\* C7: a call with eps outside [0,1) raises nothing and returns a result
\* that is not finite.
C7_DomainViolation ==
    (stage = "called" /\ (fsign(args.eps) < 0 \/ ~flt(args.eps, One))) =>
        /\ out.raised = "none"
        /\ NonFinite(out)

\* C10: each reference evaluation takes the case its comment names, and
\* sin_kappa_1 is zero where the comment says so.
C10_Labels ==
    \A i \in 1 .. Len(printed) :
        /\ printed[i].case = RefLabel[i]
        /\ RefSinZero[i] => printed[i].sin.sgn = 0

\* ------------------------------------------------------------------------
\* properties of rotor_Jeffcott and of the run (specification RunSpec)

Zero8 == [i \in 1 .. 8 |-> 0]

\* a call at t = 0 with the all-zero state, no bearing and no unbalance force
AtRest ==
    /\ call # NoCall
    /\ call.t = 0
    /\ call.q = Zero8
    /\ call.rdFB = <<0, 0>>
    /\ call.rdFU = <<0, 0>>

\* C5 (as claimed): at rest the result is -g on the rotor-mass velocity
\* entries (xm', ym': 6 and 8) and zero elsewhere.
C5_MassOnly ==
    AtRest => \A i \in 1 .. 8 : dq[i] = IF i \in {6, 8} THEN -g ELSE 0

\* C5 (amended): at rest the result is -g on the two y-velocity entries
\* (yj' and ym': 7 and 8, the journal's and the rotor mass's) and zero
\* elsewhere, the x-velocity entries and the four position entries included.
C5_Amended ==
    AtRest => \A i \in 1 .. 8 : dq[i] = IF i \in {7, 8} THEN -g ELSE 0

\* C5 witness: the call at rest has returned
C5_Witness == AtRest /\ dq[8] = -g /\ phase = "integrating"

\* C6: once the script is past solve_ivp, the integration has completed over
\* [0, tmax]; otherwise the run has stopped with a failure.
C6_CompletesOrFails ==
    phase \in {"elapsed", "plotted"} => (status = 0 /\ tcur = tmax)

\* the derivative from the parameters: the equations of motion of the two
\* masses per direction, coupled by the shaft (cs, d), written out
Expected(t, q, rdFB, rdFU) ==
    LET invmj == fdiv(One, mj).n
        invm  == fdiv(One, m).n
    IN  <<q[5], q[6], q[7], q[8],
          invmj * (-cs * (q[1] - q[2]) - d * (q[5] - q[6]) + 2 * rdFB[1]),
          invm  * (-cs * (q[2] - q[1]) - d * (q[6] - q[5]) + rdFU[1]),
          invmj * (-cs * (q[3] - q[4]) - d * (q[7] - q[8]) + 2 * rdFB[2]) - g,
          invm  * (-cs * (q[4] - q[3]) - d * (q[8] - q[7]) + rdFU[2]) - g>>

\* C8: whatever calls came before, A, Minv, gvec and the geometry are as
\* built, and the value returned is the one the arguments determine.
C8_Pure ==
    /\ A = state_space(M, D, C).A
    /\ Minv = state_space(M, D, C).Minv
    /\ gvec = [i \in 1 .. 8 |-> IF i \in {7, 8} THEN g ELSE 0]
    /\ geom = [BB |-> BB, DB |-> DB, CB |-> CB, eta |-> eta]
    /\ call # NoCall =>
          \A i \in 1 .. 8 :
              dq[i] = Expected(call.t, call.q, call.rdFB, call.rdFU)[i]

\* C8 witness: a second call has returned
C8_Witness == nfev = 2 /\ call # NoCall /\ call.q # Zero8

\* C9: the bearing is given the journal entries of the state; the force
\* vector is [2*bearing x, unbalance x, 2*bearing y, unbalance y]; the first
\* four entries of the result are the last four of the state; the bearing
\* force enters the journal accelerations only and the unbalance force the
\* rotor-mass accelerations only.
C9_Layout ==
    call # NoCall =>
        /\ call.bearingArgs.q = <<call.q[1], call.q[3], call.q[5], call.q[7]>>
        /\ call.Fvec = <<2 * call.rdFB[1], call.rdFU[1],
                         2 * call.rdFB[2], call.rdFU[2]>>
        /\ \A i \in 1 .. 4 : dq[i] = call.q[i + 4]
        /\ \A i \in 5 .. 8 :
              dq[i] = Expected(call.t, call.q, call.rdFB, call.rdFU)[i]

\* C9 witness: a call with a bearing force, an unbalance force and a moving
\* journal has returned
C9_Witness ==
    /\ call # NoCall
    /\ call.rdFB # <<0, 0>>
    /\ call.rdFU # <<0, 0>>
    /\ call.q[5] # 0
    /\ dq[1] = call.q[5]

====
